---- MODULE Spec2Model ----
(***************************************************************************)
(* Model of the two icon generators of DailySpark:                         *)
(*   scripts/generate-icons.py         ("vector": rasterizes favicon.svg)  *)
(*   scripts/generate-simple-icons.py  ("procedural": draws a star)        *)
(* Each script is a straight-line batch: create the icons directory, get a *)
(* 512x512 base image, derive the output files, report.  Every library or  *)
(* filesystem call may raise; the position of the script is pc.            *)
(***************************************************************************)
EXTENDS Integers, Sequences, FiniteSets, TLC

VARIABLES
    variant,    \* which script runs: "vector" or "procedural"
    deps,       \* TRUE iff the imported libraries are installed
    pc,         \* position of the script
    idx,        \* position of the derivation loop in its size table
    publicDir,  \* TRUE iff the directory public/ exists
    iconsDir,   \* TRUE iff the directory public/icons/ exists
    fs,         \* the files of public/: path -> content, or Absent
    base,       \* the in-memory base image (NoImage before it exists)
    resized,    \* the in-memory image made by the last resize call
    points,     \* the star polygon's vertices of draw_sparkle_star
    stdout,     \* the lines printed so far in this run (as tags)
    ops,        \* the library calls made so far in this run
    raised,     \* the step that raised in this run, or "none"
    exitCode,   \* the exit status, meaningful when pc = "exited"
    run,        \* number of the current run (the script may be re-run)
    fsStart,    \* fs when the current run started
    prevExit,   \* exit status of the previous run (-1 if there was none)
    starSize    \* the size argument of draw_sparkle_star in the star study

vars == << variant, deps, pc, idx, publicDir, iconsDir, fs, base, resized,
           points, stdout, ops, raised, exitCode, run, fsStart, prevExit,
           starSize >>

(***************************************************************************)
(* Bounds                                                                  *)
(***************************************************************************)
\* the script is run at most MaxRuns times in a row on the same directory
MaxRuns == 2
\* draw_sparkle_star is studied for every size 1..MaxStarSize (and the
\* sizes the scripts use)
MaxStarSize == 40

(***************************************************************************)
(* Paths.  A path is its stem and its extension, so that endswith(".ico")  *)
(* is decided by the path itself.                                          *)
(***************************************************************************)
FAVICON == [stem |-> "favicon", ext |-> ".ico"]
APPLE   == [stem |-> "icons/apple-touch-icon", ext |-> ".png"]
ICON192 == [stem |-> "icons/icon-192x192", ext |-> ".png"]
ICON512 == [stem |-> "icons/icon-512x512", ext |-> ".png"]
TEMP_PNG == [stem |-> "temp_icon", ext |-> ".png"]
SVG_SOURCE == [stem |-> "favicon", ext |-> ".svg"]

OutputPaths == {FAVICON, APPLE, ICON192, ICON512}
Paths == OutputPaths \cup {TEMP_PNG, SVG_SOURCE}
InIconsDir(p) == p \in {APPLE, ICON192, ICON512}

\* SIZES of generate-icons.py, in dict (insertion) order
SIZES ==
    << [name |-> FAVICON, size |-> <<64, 64>>],
       [name |-> APPLE,   size |-> <<180, 180>>],
       [name |-> ICON192, size |-> <<192, 192>>],
       [name |-> ICON512, size |-> <<512, 512>>] >>

\* sizes of generate-simple-icons.py, in dict (insertion) order; the loop
\* resizes to (size, size)
sizes ==
    << [name |-> FAVICON, size |-> <<64, 64>>],
       [name |-> ICON192, size |-> <<192, 192>>],
       [name |-> APPLE,   size |-> <<180, 180>>] >>

\* base_size of generate-simple-icons.py; also output_width/output_height
\* of the svg2png call
base_size == 512

\* the table the derivation loop of a variant walks
\* (faulty variant: the table walked backwards)
LoopTableReversed(v) ==
    LET t == IF v = "vector" THEN SIZES ELSE sizes
    IN  [k \in 1..Len(t) |-> t[Len(t) + 1 - k]]
LoopTable(v) == IF v = "vector" THEN SIZES ELSE sizes

(***************************************************************************)
(* File contents and images                                                *)
(***************************************************************************)
Absent  == [kind |-> "absent"]
Stale   == [kind |-> "stale"]     \* a file left by something else earlier
Partial == [kind |-> "partial"]   \* what a failed write may leave behind
SvgDoc  == [kind |-> "svg"]
NoImage == [w |-> 0, h |-> 0, isResized |-> FALSE]

\* an encoded image file; icoSizes is the sizes= argument of an ICO save:
\* "single" for sizes=[(width, height)], "default" when the call passes
\* none, "n/a" for PNG
Encoded(fmt, img, optimize, icoSizes) ==
    [kind |-> fmt, w |-> img.w, h |-> img.h, optimize |-> optimize,
     icoSizes |-> icoSizes]

\* a file an image library can decode
IsImageFile(c) == c.kind \in {"PNG", "ICO"}

BaseImage == [w |-> base_size, h |-> base_size, isResized |-> FALSE]

\* base_img.resize((width, height), LANCZOS): a new image of that size
\* (faulty variant: resize hands back the image it was given)
ResizeImageSame(img, size) == img
ResizeImage(img, size) == [w |-> size[1], h |-> size[2], isResized |-> TRUE]

\* filename.endswith(".ico")
\* (faulty variant: the extension test never matches)
EndsWithIcoNever(name) == FALSE
EndsWithIco(name) == name.ext = ".ico"

\* not SVG_SOURCE.exists()
\* (faulty variant: the existence check is skipped)
SvgExistsAlways(f) == TRUE
SvgExists(f) == f[SVG_SOURCE] # Absent

\* the save(...) call of the derivation loop, per variant
SaveContent(v, name, img) ==
    IF v = "vector"
    THEN IF EndsWithIco(name)
         THEN Encoded("ICO", img, FALSE, "single")
         ELSE Encoded("PNG", img, TRUE, "n/a")
    ELSE IF EndsWithIco(name)
         THEN Encoded("ICO", img, FALSE, "default")
         ELSE Encoded("PNG", img, FALSE, "n/a")

\* writing a file replaces whatever was at the path
\* (faulty variant: an existing file is not overwritten)
WriteFileKeepExisting(f, name, content) ==
    IF f[name] = Absent THEN [f EXCEPT ![name] = content] ELSE f
WriteFile(f, name, content) == [f EXCEPT ![name] = content]

\* temp_png.unlink()
\* (faulty variant: the file is not removed)
UnlinkKeeps(f, name) == f
Unlink(f, name) == [f EXCEPT ![name] = Absent]

\* the except handler touches no file
\* (faulty variant: the handler restores the outputs of the run's start)
OnExceptionRollback(f, start) == [p \in Paths |-> IF p \in OutputPaths THEN start[p] ELSE f[p]]
OnException(f, start) == f

(***************************************************************************)
(* draw_sparkle_star                                                       *)
(***************************************************************************)
\* Sizes n <= 600 at which the double product n * 0.35 rounds to a value
\* just below the integer 35n/100, so that int() yields one less
\* (0.35 is the double 0.34999999999999997...).
RoundsBelow == {180, 340, 360}

\* int(size * 0.35)
StarRadius(size) ==
    IF size \in RoundsBelow THEN (35 * size) \div 100 - 1
                            ELSE (35 * size) \div 100

\* int(star_radius * 0.5): exact in double arithmetic, then truncated
HalfRadius(r) == r \div 2

\* vertex i (0..7) of the star polygon, kept in polar form around the
\* centre: x = center + radius*cos(angle), y = center + radius*sin(angle)
\* (faulty variant: every vertex at the long radius)
StarVertexAllLong(size, i) ==
    [center |-> size \div 2, angle |-> i * 45 - 90, radius |-> StarRadius(size)]
StarVertex(size, i) ==
    [center |-> size \div 2,
     angle  |-> i * 45 - 90,
     radius |-> IF i % 2 = 0 THEN StarRadius(size)
                             ELSE HalfRadius(StarRadius(size))]

\* the list points after the loop over range(8)
StarPoints(size) == [k \in 1..8 |-> StarVertex(size, k - 1)]

(***************************************************************************)
(* Initial states: any directory content the script may meet               *)
(***************************************************************************)
Op(op, name, direct, content, ok) ==
    [op |-> op, name |-> name, direct |-> direct, content |-> content,
     ok |-> ok]

InitialFs ==
    { f \in [Paths -> {Absent, Stale, SvgDoc}] :
        /\ f[SVG_SOURCE] \in {Absent, SvgDoc}
        /\ \A p \in Paths \ {SVG_SOURCE} : f[p] \in {Absent, Stale} }

DirsAllow(f, pub, icons) ==
    /\ icons => pub
    /\ \A p \in Paths : f[p] # Absent => (pub /\ (InIconsDir(p) => icons))

Init ==
    /\ variant \in {"vector", "procedural"}
    /\ deps \in BOOLEAN
    /\ publicDir \in BOOLEAN
    /\ iconsDir \in BOOLEAN
    /\ fs \in InitialFs
    /\ DirsAllow(fs, publicDir, iconsDir)
    /\ pc = "import"
    /\ idx = 1
    /\ base = NoImage
    /\ resized = NoImage
    /\ points = << >>
    /\ stdout = << >>
    /\ ops = << >>
    /\ raised = "none"
    /\ exitCode = 0
    /\ run = 1
    /\ fsStart = fs
    /\ prevExit = -1
    /\ starSize = 0

\* variables no step of a run changes
RunFrame == UNCHANGED << variant, deps, run, fsStart, prevExit, starSize >>

\* an exception inside the top-level try block: control goes to the handler
Raise(step) ==
    /\ raised' = step
    /\ pc' = "except"

\* exit(code), or the interpreter ending the script
Exit(code) ==
    /\ pc' = "exited"
    /\ exitCode' = code

Say(line) == stdout' = Append(stdout, line)
Log(entry) == ops' = Append(ops, entry)

(***************************************************************************)
(* Steps shared by both scripts                                            *)
(***************************************************************************)
\* the import block: generate-icons.py catches ImportError and exits 1,
\* generate-simple-icons.py lets it end the interpreter (status 1)
Import ==
    /\ pc = "import"
    /\ IF deps
       THEN /\ pc' = "mkdir"
            /\ UNCHANGED << stdout, exitCode >>
       ELSE /\ Exit(1)
            /\ IF variant = "vector" THEN Say("missing dependencies")
                                     ELSE UNCHANGED stdout
    /\ UNCHANGED << idx, publicDir, iconsDir, fs, base, resized, points, ops,
                    raised >>
    /\ RunFrame

\* ICONS_DIR.mkdir(parents=True, exist_ok=True), outside the try block: an
\* OSError ends the interpreter with status 1
MkDir ==
    /\ pc = "mkdir"
    /\ \E ok \in BOOLEAN :
         IF ok \/ iconsDir
         THEN /\ publicDir' = TRUE
              /\ iconsDir' = TRUE
              /\ pc' = IF variant = "vector" THEN "check" ELSE "draw"
              /\ UNCHANGED exitCode
              /\ UNCHANGED raised
         ELSE /\ Exit(1)
              /\ raised' = "mkdir"
              /\ UNCHANGED << publicDir, iconsDir >>
    /\ UNCHANGED << idx, fs, base, resized, points, stdout, ops >>
    /\ RunFrame

\* resized = base.resize((width, height), Image.Resampling.LANCZOS)
Resize ==
    /\ pc = "resize"
    /\ LET entry == LoopTable(variant)[idx] IN
       \E ok \in BOOLEAN :
         IF ok
         THEN /\ resized' = ResizeImage(base, entry.size)
              /\ Log(Op("resize", entry.name, FALSE, Absent, TRUE))
              /\ pc' = "save"
              /\ UNCHANGED raised
         ELSE /\ Log(Op("resize", entry.name, FALSE, Absent, FALSE))
              /\ Raise("resize")
              /\ UNCHANGED resized
    /\ UNCHANGED << idx, publicDir, iconsDir, fs, base, points, stdout,
                    exitCode >>
    /\ RunFrame

\* the position after entry idx of the loop is done
LoopAdvance ==
    IF idx < Len(LoopTable(variant))
    THEN /\ idx' = idx + 1
         /\ pc' = "resize"
    ELSE /\ idx' = idx
         /\ pc' = IF variant = "vector" THEN "unlink" ELSE "banner"

\* resized.save(output_path, ...); generate-icons.py prints its progress
\* line right after, generate-simple-icons.py stats the file first
Save ==
    /\ pc = "save"
    /\ LET entry == LoopTable(variant)[idx]
           content == SaveContent(variant, entry.name, resized)
       IN
       \E ok \in BOOLEAN, partial \in BOOLEAN :
         IF ok
         THEN /\ ~partial
              /\ fs' = WriteFile(fs, entry.name, content)
              /\ Log(Op("save", entry.name, ~resized.isResized, content, TRUE))
              /\ IF variant = "vector"
                 THEN Say("generated") /\ LoopAdvance
                 ELSE pc' = "stat" /\ UNCHANGED << stdout, idx >>
              /\ UNCHANGED raised
         ELSE /\ fs' = IF partial THEN WriteFile(fs, entry.name, Partial) ELSE fs
              /\ Log(Op("save", entry.name, ~resized.isResized, content, FALSE))
              /\ Raise("save")
              /\ UNCHANGED << stdout, idx >>
    /\ UNCHANGED << publicDir, iconsDir, base, resized, points, exitCode >>
    /\ RunFrame

\* print("All icons generated successfully!")
Banner ==
    /\ pc = "banner"
    /\ Say("banner")
    /\ pc' = "report"
    /\ UNCHANGED << idx, publicDir, iconsDir, fs, base, resized, points, ops,
                    raised, exitCode >>
    /\ RunFrame

\* the list of generated files printed after the banner, still inside the
\* try block (generate-icons.py calls path.exists() and path.stat() there);
\* the script then ends with status 0
Report ==
    /\ pc = "report"
    /\ \E ok \in BOOLEAN :
         IF ok
         THEN /\ Say("generated files")
              /\ Exit(0)
              /\ UNCHANGED raised
         ELSE /\ Raise("report")
              /\ UNCHANGED << stdout, exitCode >>
    /\ UNCHANGED << idx, publicDir, iconsDir, fs, base, resized, points, ops >>
    /\ RunFrame

\* except Exception as e: print the error, exit(1)
Handler ==
    /\ pc = "except"
    /\ Say("error")
    /\ fs' = OnException(fs, fsStart)
    /\ Exit(1)
    /\ UNCHANGED << idx, publicDir, iconsDir, base, resized, points, ops,
                    raised >>
    /\ RunFrame

(***************************************************************************)
(* Steps of generate-icons.py                                              *)
(***************************************************************************)
\* print the start line; if not SVG_SOURCE.exists(): print, exit(1)
CheckSvg ==
    /\ pc = "check"
    /\ IF SvgExists(fs)
       THEN /\ Say("start")
            /\ pc' = "svg2png"
            /\ UNCHANGED exitCode
       ELSE /\ stdout' = stdout \o << "start", "not found" >>
            /\ Exit(1)
    /\ UNCHANGED << idx, publicDir, iconsDir, fs, base, resized, points, ops,
                    raised >>
    /\ RunFrame

\* cairosvg.svg2png(url=SVG_SOURCE, write_to=temp_png, 512, 512); it can
\* only succeed on an existing source, and a failure may leave a partial
\* temp_icon.png
Svg2Png ==
    /\ pc = "svg2png"
    /\ LET content == Encoded("PNG", BaseImage, FALSE, "n/a") IN
       \E ok \in BOOLEAN, partial \in BOOLEAN :
         IF ok
         THEN /\ ~partial
              /\ fs[SVG_SOURCE] # Absent
              /\ fs' = WriteFile(fs, TEMP_PNG, content)
              /\ Log(Op("svg2png", TEMP_PNG, FALSE, content, TRUE))
              /\ Say("rendered")
              /\ pc' = "open"
              /\ UNCHANGED raised
         ELSE /\ fs' = IF partial THEN WriteFile(fs, TEMP_PNG, Partial) ELSE fs
              /\ Log(Op("svg2png", TEMP_PNG, FALSE, content, FALSE))
              /\ Raise("svg2png")
              /\ UNCHANGED stdout
    /\ UNCHANGED << idx, publicDir, iconsDir, base, resized, points, exitCode >>
    /\ RunFrame

\* base_img = Image.open(temp_png); it can only succeed on an image file
OpenBase ==
    /\ pc = "open"
    /\ \E ok \in BOOLEAN :
         IF ok
         THEN /\ IsImageFile(fs[TEMP_PNG])
              /\ base' = [w |-> fs[TEMP_PNG].w, h |-> fs[TEMP_PNG].h,
                          isResized |-> FALSE]
              /\ pc' = "resize"
              /\ UNCHANGED raised
         ELSE /\ Raise("open")
              /\ UNCHANGED base
    /\ UNCHANGED << idx, publicDir, iconsDir, fs, resized, points, stdout, ops,
                    exitCode >>
    /\ RunFrame

\* temp_png.unlink(); print the clean-up line
UnlinkTemp ==
    /\ pc = "unlink"
    /\ \E ok \in BOOLEAN :
         IF ok
         THEN /\ fs' = Unlink(fs, TEMP_PNG)
              /\ Log(Op("unlink", TEMP_PNG, FALSE, Absent, TRUE))
              /\ Say("cleaned up")
              /\ pc' = "banner"
              /\ UNCHANGED raised
         ELSE /\ Log(Op("unlink", TEMP_PNG, FALSE, Absent, FALSE))
              /\ Raise("unlink")
              /\ UNCHANGED << fs, stdout >>
    /\ UNCHANGED << idx, publicDir, iconsDir, base, resized, points, exitCode >>
    /\ RunFrame

(***************************************************************************)
(* Steps of generate-simple-icons.py                                       *)
(***************************************************************************)
\* print the start line (before the try block), then
\* base_image = draw_sparkle_star(base_size)
Draw ==
    /\ pc = "draw"
    /\ Say("start")
    /\ \E ok \in BOOLEAN :
         IF ok
         THEN /\ base' = BaseImage
              /\ points' = StarPoints(base_size)
              /\ pc' = "save_base"
              /\ UNCHANGED raised
         ELSE /\ Raise("draw")
              /\ UNCHANGED << base, points >>
    /\ UNCHANGED << idx, publicDir, iconsDir, fs, resized, ops, exitCode >>
    /\ RunFrame

\* base_image.save(PUBLIC_DIR / "icons" / "icon-512x512.png", "PNG")
SaveBase ==
    /\ pc = "save_base"
    /\ LET content == Encoded("PNG", base, FALSE, "n/a") IN
       \E ok \in BOOLEAN, partial \in BOOLEAN :
         IF ok
         THEN /\ ~partial
              /\ fs' = WriteFile(fs, ICON512, content)
              /\ Log(Op("save", ICON512, ~base.isResized, content, TRUE))
              /\ Say("generated")
              /\ pc' = "resize"
              /\ UNCHANGED raised
         ELSE /\ fs' = IF partial THEN WriteFile(fs, ICON512, Partial) ELSE fs
              /\ Log(Op("save", ICON512, ~base.isResized, content, FALSE))
              /\ Raise("save")
              /\ UNCHANGED stdout
    /\ UNCHANGED << idx, publicDir, iconsDir, base, resized, points, exitCode >>
    /\ RunFrame

\* file_size = output_path.stat().st_size / 1024; print the progress line
Stat ==
    /\ pc = "stat"
    /\ \E ok \in BOOLEAN :
         IF ok
         THEN /\ Say("generated")
              /\ LoopAdvance
              /\ UNCHANGED raised
         ELSE /\ Raise("stat")
              /\ UNCHANGED << stdout, idx >>
    /\ UNCHANGED << publicDir, iconsDir, fs, base, resized, points, ops,
                    exitCode >>
    /\ RunFrame

(***************************************************************************)
(* Running the script again on the directory the last run left             *)
(***************************************************************************)
Restart ==
    /\ pc = "exited"
    /\ run < MaxRuns
    /\ run' = run + 1
    /\ fsStart' = fs
    /\ prevExit' = exitCode
    /\ pc' = "import"
    /\ idx' = 1
    /\ base' = NoImage
    /\ resized' = NoImage
    /\ points' = << >>
    /\ stdout' = << >>
    /\ ops' = << >>
    /\ raised' = "none"
    /\ exitCode' = 0
    /\ UNCHANGED << variant, deps, publicDir, iconsDir, fs, starSize >>

Next ==
    \/ Import
    \/ MkDir
    \/ CheckSvg
    \/ Svg2Png
    \/ OpenBase
    \/ Draw
    \/ SaveBase
    \/ Resize
    \/ Save
    \/ Stat
    \/ UnlinkTemp
    \/ Banner
    \/ Report
    \/ Handler
    \/ Restart

Spec == Init /\ [][Next]_vars

(***************************************************************************)
(* draw_sparkle_star on its own: the loop over range(8) for any size       *)
(***************************************************************************)
StarSizes == (1..MaxStarSize) \cup {64, 180, 192, base_size}

InitStar ==
    /\ starSize \in StarSizes
    /\ points = << >>
    /\ variant = "procedural"
    /\ deps = TRUE
    /\ pc = "draw_sparkle_star"
    /\ idx = 1
    /\ publicDir = TRUE
    /\ iconsDir = TRUE
    /\ fs = [p \in Paths |-> Absent]
    /\ base = NoImage
    /\ resized = NoImage
    /\ stdout = << >>
    /\ ops = << >>
    /\ raised = "none"
    /\ exitCode = 0
    /\ run = 1
    /\ fsStart = fs
    /\ prevExit = -1

\* one iteration of "for i in range(8)": points.append((x, y))
StarStep ==
    /\ pc = "draw_sparkle_star"
    /\ Len(points) < 8
    /\ points' = Append(points, StarVertex(starSize, Len(points)))
    /\ UNCHANGED << variant, deps, pc, idx, publicDir, iconsDir, fs, base,
                    resized, stdout, ops, raised, exitCode, run, fsStart,
                    prevExit, starSize >>

NextStar == StarStep

SpecStar == InitStar /\ [][NextStar]_vars

(***************************************************************************)
(* Vocabulary of the properties                                            *)
(***************************************************************************)
Terminated == pc = "exited"
Files(f) == { p \in Paths : f[p] # Absent }
HoldsImage(c, w, h) == IsImageFile(c) /\ c.w = w /\ c.h = h
Printed(line) == \E k \in 1..Len(stdout) : stdout[k] = line
\* positions in ops of the save calls, and of the successful ones
SaveAt == { k \in 1..Len(ops) : ops[k].op = "save" }
SavedAt == { k \in SaveAt : ops[k].ok }
ResizeAt == { k \in 1..Len(ops) : ops[k].op = "resize" }
\* the output paths in the order their save calls were made
RECURSIVE SaveOrderFrom(_)
SaveOrderFrom(k) ==
    IF k > Len(ops) THEN << >>
    ELSE IF ops[k].op = "save" THEN << ops[k].name >> \o SaveOrderFrom(k + 1)
    ELSE SaveOrderFrom(k + 1)
SaveOrder == SaveOrderFrom(1)
IsPrefix(a, b) == Len(a) <= Len(b) /\ \A k \in 1..Len(a) : a[k] = b[k]
\* the size table of the specification's section 6
TableOrder == << FAVICON, APPLE, ICON192, ICON512 >>
\* a first run in which the libraries are installed and no call failed
CleanRun == run = 1 /\ deps /\ raised = "none"
\* the four outputs hold images of the table's dimensions
TableDimensions ==
    /\ HoldsImage(fs[FAVICON], 64, 64)
    /\ HoldsImage(fs[APPLE], 180, 180)
    /\ HoldsImage(fs[ICON192], 192, 192)
    /\ HoldsImage(fs[ICON512], 512, 512)

(***************************************************************************)
(* C1                                                                      *)
(***************************************************************************)
\* C1 as stated: a run that starts on a public directory holding nothing
\* (but, for the vector script, the source SVG), with the libraries
\* installed and no call failing, never gets stuck, ends with exit code 0,
\* and then the files under public/ are exactly the four outputs, each
\* holding an image of its table dimensions.
C1_Original ==
    (CleanRun /\ Files(fsStart) = (IF variant = "vector" THEN {SVG_SOURCE} ELSE {}))
    => /\ ~Terminated => ENABLED Next
       /\ Terminated => /\ exitCode = 0
                        /\ Files(fs) = OutputPaths
                        /\ TableDimensions

\* C1 amended: as C1, except that the files under public/ at the end are
\* the four outputs together with what was there at the start (the source
\* favicon.svg of the vector script); temp_icon.png is not among them.
C1_Amended ==
    (CleanRun /\ Files(fsStart) = (IF variant = "vector" THEN {SVG_SOURCE} ELSE {}))
    => /\ ~Terminated => ENABLED Next
       /\ Terminated => /\ exitCode = 0
                        /\ Files(fs) = OutputPaths \cup Files(fsStart)
                        /\ fs[TEMP_PNG] = Absent
                        /\ TableDimensions

C1_Witness ==
    /\ CleanRun
    /\ variant = "vector"
    /\ Files(fsStart) = {SVG_SOURCE}
    /\ Terminated
    /\ exitCode = 0
    /\ \E k \in 1..Len(ops) : ops[k].op = "unlink" /\ ops[k].ok

(***************************************************************************)
(* C2                                                                      *)
(***************************************************************************)
\* C2: in a run of the vector script that finds no public/favicon.svg, the
\* rasterizer is never called, no file is created or modified (so an icons
\* directory without files stays without files), the run never gets stuck
\* and its exit code is non-zero.
C2_MissingSource ==
    (variant = "vector" /\ fsStart[SVG_SOURCE] = Absent)
    => /\ \A k \in 1..Len(ops) : ops[k].op # "svg2png"
       /\ fs = fsStart
       /\ (\A p \in Paths : InIconsDir(p) => fsStart[p] = Absent)
            => (\A p \in Paths : InIconsDir(p) => fs[p] = Absent)
       /\ Terminated => exitCode # 0
       /\ ~Terminated => ENABLED Next

C2_Witness ==
    /\ variant = "vector"
    /\ fsStart[SVG_SOURCE] = Absent
    /\ deps
    /\ Terminated
    /\ Printed("not found")
    /\ exitCode = 1
    /\ iconsDir
    /\ \A p \in Paths : InIconsDir(p) => fs[p] = Absent

(***************************************************************************)
(* C3                                                                      *)
(***************************************************************************)
\* every step the script has to do was done and none raised
FullSuccess ==
    /\ raised = "none"
    /\ deps
    /\ \A p \in OutputPaths : \E k \in SavedAt : ops[k].name = p

\* C3: a run exits with code 0 only on full success, and a run in which a
\* step inside the try block raised ends with a non-zero exit code and
\* without the success banner having been printed.
C3_ExitCodeAndBanner ==
    Terminated =>
        /\ exitCode = 0 => FullSuccess
        /\ raised \notin {"none", "mkdir"} => (exitCode # 0 /\ ~Printed("banner"))

(***************************************************************************)
(* C4                                                                      *)
(***************************************************************************)
\* C4: when a successful run follows a successful run, the files under
\* public/ and their contents are the same after it as before it, every
\* output file holds what this run's save call wrote, and no temporary
\* file is left.
C4_Idempotent ==
    (Terminated /\ run >= 2 /\ prevExit = 0 /\ exitCode = 0)
    => /\ fs = fsStart
       /\ \A p \in OutputPaths :
            \E k \in SavedAt : ops[k].name = p /\ fs[p] = ops[k].content
       /\ variant = "vector" => fs[TEMP_PNG] = Absent

C4_Witness ==
    /\ Terminated
    /\ run = 2
    /\ prevExit = 0
    /\ exitCode = 0
    /\ variant = "vector"
    /\ Cardinality(SavedAt) = 4

(***************************************************************************)
(* C5                                                                      *)
(***************************************************************************)
\* C5: when a run ends, however it ends, every path other than the four
\* outputs is as it was when the run started; in particular a
\* temp_icon.png that was not there at the start is not there at the end.
C5_NoOtherFiles ==
    (Terminated /\ fsStart[TEMP_PNG] = Absent)
    => \A p \in Paths \ OutputPaths : fs[p] = fsStart[p]

(***************************************************************************)
(* C6                                                                      *)
(***************************************************************************)
\* C6: within a run each output path is saved at most once; a call that
\* failed is the last call of the run (nothing is resampled or written after
\* it); and every output file written by the run keeps what was written,
\* up to and including termination.
C6_NoRetryNoRollback ==
    /\ \A j, k \in SaveAt : ops[j].name = ops[k].name => j = k
    /\ \A k \in 1..Len(ops) : ~ops[k].ok => k = Len(ops)
    /\ \A k \in SavedAt : fs[ops[k].name] = ops[k].content

C6_Witness ==
    /\ Terminated
    /\ exitCode = 1
    /\ raised = "save"
    /\ Cardinality(SavedAt) = 2
    /\ Cardinality(SaveAt) = 3

(***************************************************************************)
(* C7 (checked under SpecStar)                                             *)
(***************************************************************************)
\* vertex k-1 sits around centre (S//2, S//2) at angle 45*(k-1) - 90
VertexPlaced(k) ==
    /\ points[k].center = starSize \div 2
    /\ points[k].angle = 45 * (k - 1) - 90
    /\ points[k].angle \in {-90, -45, 0, 45, 90, 135, 180, 225}

\* C7 as stated: for any size S the vertices are placed around (S//2, S//2)
\* at angles 45*i - 90, with radius 0.35*S for even i and 0.35*S*0.5 for
\* odd i (compared after scaling by 100 and by 200).
C7_Original ==
    \A k \in 1..Len(points) :
        /\ VertexPlaced(k)
        /\ (k - 1) % 2 = 0 => 100 * points[k].radius = 35 * starSize
        /\ (k - 1) % 2 = 1 => 200 * points[k].radius = 35 * starSize

\* C7 amended: the placement is as stated, but the radii are integers: for
\* even i the radius is int(S*0.35), that is 0.35*S truncated (and one less
\* than 0.35*S when that is a whole number the double product falls just
\* below, as for S = 180); for odd i it is the even radius halved and
\* truncated again.
C7_Amended ==
    \A k \in 1..Len(points) :
        /\ VertexPlaced(k)
        /\ (k - 1) % 2 = 0 =>
             /\ points[k].radius \in Nat
             /\ 100 * points[k].radius <= 35 * starSize
             /\ 35 * starSize <= 100 * points[k].radius + 100
             /\ 35 * starSize = 100 * points[k].radius + 100
                  => starSize \in {180, 340, 360}
        /\ (k - 1) % 2 = 1 =>
             /\ points[k].radius \in Nat
             /\ 2 * points[k].radius <= points[k - 1].radius
             /\ points[k - 1].radius <= 2 * points[k].radius + 1

C7_Witness ==
    /\ pc = "draw_sparkle_star"
    /\ starSize = 512
    /\ Len(points) = 8
    /\ points[1].radius = 179
    /\ points[2].radius = 89

(***************************************************************************)
(* C8                                                                      *)
(***************************************************************************)
\* C8 as stated: in both scripts the outputs are saved in the order of the
\* table: favicon.ico, apple-touch-icon.png, icon-192x192.png,
\* icon-512x512.png.
C8_Original == IsPrefix(SaveOrder, TableOrder)

\* C8 amended: the vector script saves in the order of the table; the
\* procedural script saves icon-512x512.png first, then favicon.ico, then
\* icon-192x192.png, then apple-touch-icon.png.
C8_Amended ==
    IsPrefix(SaveOrder,
             IF variant = "vector" THEN TableOrder
             ELSE << ICON512, FAVICON, ICON192, APPLE >>)

C8_Witness ==
    /\ variant = "procedural"
    /\ Terminated
    /\ exitCode = 0
    /\ Len(SaveOrder) = 4

(***************************************************************************)
(* C9                                                                      *)
(***************************************************************************)
\* the save call at position k was preceded by a resize call for its entry
ResizedBefore(k) ==
    \E j \in ResizeAt : j < k /\ ops[j].ok /\ ops[j].name = ops[k].name

\* C9 as stated: in both scripts icon-512x512.png is the base image saved
\* directly, with no resize call made for it, and every other output is a
\* resized copy, never the base image itself.
C9_Original ==
    \A k \in SaveAt :
        IF ops[k].name = ICON512
        THEN ops[k].direct /\ ~ResizedBefore(k)
        ELSE ~ops[k].direct /\ ResizedBefore(k)

\* C9 amended: that holds of the procedural script; the vector script
\* calls resize for every entry, the 512x512 one included (resized to the
\* base image's own dimensions), and saves the image resize returned.
C9_Amended ==
    \A k \in SaveAt :
        IF ops[k].name = ICON512 /\ variant = "procedural"
        THEN ops[k].direct /\ ~ResizedBefore(k)
        ELSE /\ ~ops[k].direct
             /\ ResizedBefore(k)
             /\ ops[k].name = ICON512
                  => (ops[k].content.w = base.w /\ ops[k].content.h = base.h)

C9_Witness ==
    /\ variant = "vector"
    /\ Terminated
    /\ exitCode = 0
    /\ \E k \in SavedAt : ops[k].name = ICON512 /\ ResizedBefore(k)

(***************************************************************************)
(* C10                                                                     *)
(***************************************************************************)
\* C10 as stated: an output is written as ICO iff its path ends with
\* ".ico", and every other output is written as PNG with optimize on.
C10_Original ==
    \A k \in SaveAt :
        /\ ops[k].content.kind = "ICO" <=> ops[k].name.ext = ".ico"
        /\ ops[k].name.ext # ".ico"
             => (ops[k].content.kind = "PNG" /\ ops[k].content.optimize)

\* C10 amended: an output is written as ICO iff its path ends with ".ico",
\* and every other output is written as PNG; the PNG is written with
\* optimize on by the vector script and without it by the procedural one.
C10_Amended ==
    \A k \in SaveAt :
        /\ ops[k].content.kind = "ICO" <=> ops[k].name.ext = ".ico"
        /\ ops[k].name.ext # ".ico"
             => /\ ops[k].content.kind = "PNG"
                /\ ops[k].content.optimize <=> variant = "vector"

C10_Witness ==
    /\ variant = "procedural"
    /\ Terminated
    /\ exitCode = 0
    /\ fs[FAVICON].kind = "ICO"
    /\ fs[APPLE].kind = "PNG"
    /\ ~fs[APPLE].optimize

====
